---- MODULE Spec2Model ----
(***************************************************************************)
(* GPS distance tracker (src/App.tsx) and its cloud tracking client        *)
(* (LocationService, src/unnamed/part_000).                                *)
(*                                                                         *)
(* The App component's useState/useRef cells are the variables.  Every     *)
(* JavaScript task (a button handler, the part of startTracking between    *)
(* two awaits, one location callback, one timer tick, one promise          *)
(* settlement) runs to completion on the single UI thread and is one       *)
(* action.                                                                 *)
(*                                                                         *)
(* Units: a position is <<latitude, longitude>> given as whole-metre       *)
(* offsets north and east of a reference point; distances are in           *)
(* centimetres; the clock is in milliseconds.                              *)
(***************************************************************************)
EXTENDS Integers, Sequences, FiniteSets

\* ---------------------------------------------------------------- bounds
\* A run takes at most this many inputs: presses of the start button, fixes
\* delivered by the location source, and seconds of clock time.
MaxInputs == 4

\* ------------------------------------------------------- program constants
\* `distance > 3` (metres)
NoiseThreshold == 3
\* setInterval(..., 1000) and Math.floor(.../1000)
MsPerSecond == 1000

VARIABLES
    \* useState cells of App
    isTracking, totalDistance, currentSpeed, duration, currentPosition,
    routeCoordinates,
    \* useRef cells of App
    locationSubscription, startTimeRef, durationIntervalRef, lastPositionRef,
    \* LocationService singleton
    locationClient,
    \* environment: device location subsystem, timers, clock, promises
    pc, subscriptions, intervals, now, pendingSends,
    \* what the task that ran last did to the outside world
    effects,
    \* the button pressed last
    lastButton,
    \* bookkeeping
    nextCall, nFixes

vars == <<isTracking, totalDistance, currentSpeed, duration, currentPosition,
          routeCoordinates, locationSubscription, startTimeRef,
          durationIntervalRef, lastPositionRef, locationClient, pc,
          subscriptions, intervals, now, pendingSends, effects, lastButton,
          nextCall, nFixes>>

\* the state cells of the App component
appVars == <<isTracking, totalDistance, currentSpeed, duration,
             currentPosition, routeCoordinates, locationSubscription,
             startTimeRef, durationIntervalRef, lastPositionRef>>

\* the LocationService side and its effects
remoteVars == <<locationClient, pendingSends>>

\* ------------------------------------------------------------ value spaces
\* null of a position-valued cell
NULL == <<>>
\* null of a handle-valued ref (subscription, interval id)
NoHandle == 0
\* null of startTimeRef
NoTime == -1
\* coords.speed === null
NoSpeed == -1

Calls == 1..MaxInputs
\* The fixes the location source delivers: a start point, one exactly 3 m
\* north of it, one 1 m east of that (3.16 m from the start), one 7 m north.
Positions == {<<0, 0>>, <<3, 0>>, <<3, 1>>, <<7, 0>>}
Speeds == {NoSpeed, 0, 2}

latitude(p) == p[1]
longitude(p) == p[2]

\* ------------------------------------------------------------ pure helpers
RECURSIVE ISqrtIn(_, _, _)
\* the r in lo..hi with r*r <= n < (r+1)*(r+1), by bisection
ISqrtIn(n, lo, hi) ==
    IF lo = hi THEN lo
    ELSE LET mid == (lo + hi + 1) \div 2
         IN  IF mid * mid <= n THEN ISqrtIn(n, mid, hi) ELSE ISqrtIn(n, lo, mid - 1)

\* floor of the square root, for n below 4000 * 4000
ISqrt(n) == ISqrtIn(n, 0, IF n < 4000 THEN n ELSE 4000)

Sq(x) == x * x

\* Geodesic.WGS84.Inverse(...).s12 for fixes a few metres apart: the length
\* of the straight segment, in centimetres, indexed by its squared length in
\* square metres.
InverseS12 ==
    [d2 \in {Sq(p[1] - q[1]) + Sq(p[2] - q[2]) : p, q \in Positions}
        |-> ISqrt(d2 * 10000)]

calculateDistanceGeodesic(lat1, lon1, lat2, lon2) ==
    InverseS12[Sq(lat2 - lat1) + Sq(lon2 - lon1)]

\* faulty variant of ExceedsNoise: accepts a displacement of exactly 3 m
ExceedsNoiseGe(distance) == distance >= NoiseThreshold * 100
\* `distance > 3`, the threshold in metres against a distance in centimetres
ExceedsNoise(distance) == distance > NoiseThreshold * 100

\* faulty variant of Accumulate: subtracts
AccumulateMinus(prev, distance) == prev - distance
\* the updater `(prev) => prev + distance`
Accumulate(prev, distance) == prev + distance

\* `speed || 0`
SpeedOrZero(speed) == IF speed = NoSpeed \/ speed = 0 THEN 0 ELSE speed

\* Math.floor((Date.now() - (startTimeRef.current ?? 0)) / 1000)
Elapsed(t, start) == (t - (IF start = NoTime THEN 0 ELSE start)) \div MsPerSecond

\* What a task did to the outside world: the title of the Alert.alert it
\* raised, the arguments of the LocationService.trackPosition calls it made,
\* and whether it ended in a promise rejection that nothing handles.
NoEffects == [alert |-> "none", tracked |-> <<>>, unhandled |-> FALSE]

\* the inputs the run has taken so far
Inputs == (nextCall - 1) + nFixes + (now \div MsPerSecond)

\* ------------------------------------------------------------------- Init
Init ==
    /\ isTracking = FALSE
    /\ totalDistance = 0
    /\ currentSpeed = 0
    /\ duration = 0
    /\ currentPosition = NULL
    /\ routeCoordinates = <<>>
    /\ locationSubscription = NoHandle
    /\ startTimeRef = NoTime
    /\ durationIntervalRef = NoHandle
    /\ lastPositionRef = NULL
    \* initialize() either built the client or threw and left it null
    /\ locationClient \in BOOLEAN
    /\ pc = [c \in Calls |-> "idle"]
    /\ subscriptions = {}
    /\ intervals = {}
    /\ now = 0
    /\ pendingSends = 0
    /\ effects = NoEffects
    /\ lastButton = "none"
    /\ nextCall = 1
    /\ nFixes = 0

\* ------------------------------------------------------- LocationService
\* LocationService.trackPosition(latitude, longitude) up to its first await:
\* without a client it warns and returns; otherwise it builds the command
\* and sends it, and the outcome arrives in a later task.
trackPosition(lat, lon) ==
    /\ pendingSends' = IF locationClient THEN pendingSends + 1 ELSE pendingSends
    /\ UNCHANGED locationClient

\* `await this.locationClient.send(command)` fulfils: logged, returned
sendResolved ==
    /\ pendingSends > 0
    /\ pendingSends' = pendingSends - 1
    /\ effects' = NoEffects
    /\ UNCHANGED <<lastButton, appVars, locationClient, pc, subscriptions, intervals, now,
                   nextCall, nFixes>>

\* `await this.locationClient.send(command)` rejects: the catch block logs
\* and rethrows, so the promise trackPosition returned rejects; its caller
\* kept no reference to it and attached no handler.
sendRejected ==
    /\ pendingSends > 0
    /\ pendingSends' = pendingSends - 1
    /\ effects' = [NoEffects EXCEPT !.unhandled = TRUE]
    /\ UNCHANGED <<lastButton, appVars, locationClient, pc, subscriptions, intervals, now,
                   nextCall, nFixes>>

\* ------------------------------------------------------------ startTracking
\* The start button (rendered while !isTracking) is pressed: startTracking
\* runs up to `await requestLocationPermission()`.
startTracking ==
    /\ ~isTracking
    /\ Inputs < MaxInputs
    /\ pc' = [pc EXCEPT ![nextCall] = "permission"]
    /\ nextCall' = nextCall + 1
    /\ effects' = NoEffects
    /\ lastButton' = "start"
    /\ UNCHANGED <<appVars, remoteVars, subscriptions, intervals, now,
                   nFixes>>

\* faulty variant of startTrackingDenied: sets isTracking before the
\* permission check
startTrackingDeniedMut(c) ==
    /\ pc[c] = "permission"
    /\ pc' = [pc EXCEPT ![c] = "done"]
    /\ isTracking' = TRUE
    /\ effects' = [NoEffects EXCEPT !.alert = "Permission Denied"]
    /\ UNCHANGED <<lastButton, totalDistance, currentSpeed, duration, currentPosition,
                   routeCoordinates, locationSubscription, startTimeRef,
                   durationIntervalRef, lastPositionRef, remoteVars,
                   subscriptions, intervals, now, nextCall, nFixes>>
\* requestLocationPermission returned false (status not 'granted', or the
\* request threw and the catch returned false): alert and return.
startTrackingDenied(c) ==
    /\ pc[c] = "permission"
    /\ pc' = [pc EXCEPT ![c] = "done"]
    /\ effects' = [NoEffects EXCEPT !.alert = "Permission Denied"]
    /\ UNCHANGED <<lastButton, appVars, remoteVars, subscriptions, intervals, now,
                   nextCall, nFixes>>

\* requestLocationPermission returned true: the session cells are set, the
\* duration timer is created and watchPositionAsync is called and awaited.
startTrackingGranted(c) ==
    /\ pc[c] = "permission"
    /\ isTracking' = TRUE
    /\ totalDistance' = 0
    /\ duration' = 0
    /\ routeCoordinates' = <<>>
    /\ lastPositionRef' = NULL
    /\ startTimeRef' = now
    /\ durationIntervalRef' = c
    /\ intervals' = intervals \cup {c}
    /\ pc' = [pc EXCEPT ![c] = "watch"]
    /\ effects' = NoEffects
    /\ UNCHANGED <<lastButton, currentSpeed, currentPosition, locationSubscription,
                   remoteVars, subscriptions, now, nextCall, nFixes>>

\* watchPositionAsync fulfils: the subscription is live and stored in the ref.
watchPositionResolved(c) ==
    /\ pc[c] = "watch"
    /\ locationSubscription' = c
    /\ subscriptions' = subscriptions \cup {c}
    /\ pc' = [pc EXCEPT ![c] = "done"]
    /\ effects' = NoEffects
    /\ UNCHANGED <<lastButton, isTracking, totalDistance, currentSpeed, duration,
                   currentPosition, routeCoordinates, startTimeRef,
                   durationIntervalRef, lastPositionRef, remoteVars,
                   intervals, now, nextCall, nFixes>>

\* watchPositionAsync rejects: logged, 'Location Error' alert.
watchPositionRejected(c) ==
    /\ pc[c] = "watch"
    /\ pc' = [pc EXCEPT ![c] = "done"]
    /\ effects' = [NoEffects EXCEPT !.alert = "Location Error"]
    /\ UNCHANGED <<lastButton, appVars, remoteVars, subscriptions, intervals, now,
                   nextCall, nFixes>>

\* --------------------------------------------------- the location callback
\* faulty variant of locationCallback: an accepted fix replaces the route
\* instead of being appended to it
locationCallbackReplacesRoute(c, lat, lon, speed) ==
    LET newPosition == <<lat, lon>>
        first == lastPositionRef = NULL
        distance == IF first THEN 0
                    ELSE calculateDistanceGeodesic(latitude(lastPositionRef),
                                                   longitude(lastPositionRef),
                                                   lat, lon)
    IN  /\ c \in subscriptions
        /\ Inputs < MaxInputs
        /\ nFixes' = nFixes + 1
        /\ currentPosition' = newPosition
        /\ currentSpeed' = SpeedOrZero(speed)
        /\ lastPositionRef' = newPosition
        /\ IF first
           THEN /\ routeCoordinates' = <<newPosition>>
                /\ UNCHANGED <<totalDistance, remoteVars>>
           ELSE /\ IF ExceedsNoise(distance)
                   THEN /\ totalDistance' = Accumulate(totalDistance, distance)
                        /\ routeCoordinates' = <<newPosition>>
                   ELSE UNCHANGED <<totalDistance, routeCoordinates>>
                /\ trackPosition(lat, lon)
        /\ effects' = [NoEffects EXCEPT
                           !.tracked = IF first THEN <<>> ELSE <<newPosition>>]
        /\ UNCHANGED <<lastButton, isTracking, duration, locationSubscription, startTimeRef,
                       durationIntervalRef, pc, subscriptions, intervals, now,
                       nextCall>>
\* One delivery of a fix to the callback registered by call c, whose
\* subscription is live until its remove() is called.
locationCallback(c, lat, lon, speed) ==
    LET newPosition == <<lat, lon>>
        first == lastPositionRef = NULL
        distance == IF first THEN 0
                    ELSE calculateDistanceGeodesic(latitude(lastPositionRef),
                                                   longitude(lastPositionRef),
                                                   lat, lon)
    IN  /\ c \in subscriptions
        /\ Inputs < MaxInputs
        /\ nFixes' = nFixes + 1
        /\ currentPosition' = newPosition
        /\ currentSpeed' = SpeedOrZero(speed)
        /\ lastPositionRef' = newPosition
        /\ IF first
           THEN /\ routeCoordinates' = <<newPosition>>
                /\ UNCHANGED <<totalDistance, remoteVars>>
           ELSE /\ IF ExceedsNoise(distance)
                   THEN /\ totalDistance' = Accumulate(totalDistance, distance)
                        /\ routeCoordinates' = Append(routeCoordinates, newPosition)
                   ELSE UNCHANGED <<totalDistance, routeCoordinates>>
                /\ trackPosition(lat, lon)
        /\ effects' = [NoEffects EXCEPT
                           !.tracked = IF first THEN <<>> ELSE <<newPosition>>]
        /\ UNCHANGED <<lastButton, isTracking, duration, locationSubscription, startTimeRef,
                       durationIntervalRef, pc, subscriptions, intervals, now,
                       nextCall>>

\* ------------------------------------------------------ the duration timer
\* One firing of the interval created by call c.
durationTick(c) ==
    /\ c \in intervals
    /\ duration' = Elapsed(now, startTimeRef)
    /\ effects' = NoEffects
    /\ UNCHANGED <<lastButton, isTracking, totalDistance, currentSpeed, currentPosition,
                   routeCoordinates, locationSubscription, startTimeRef,
                   durationIntervalRef, lastPositionRef, remoteVars, pc,
                   subscriptions, intervals, now, nextCall, nFixes>>

\* Date.now() moves on by a second (time passing is no task).
clockAdvance ==
    /\ Inputs < MaxInputs
    /\ now' = now + MsPerSecond
    /\ UNCHANGED <<lastButton, appVars, effects, remoteVars, pc, subscriptions, intervals,
                   nextCall, nFixes>>

\* ------------------------------------------------------- stop and reset
\* faulty variant of stopTracking: omits setIsTracking(false)
stopTrackingKeepsFlag ==
    /\ UNCHANGED isTracking
    /\ locationSubscription' = NoHandle
    /\ subscriptions' = subscriptions \ {locationSubscription}
    /\ durationIntervalRef' = NoHandle
    /\ intervals' = intervals \ {durationIntervalRef}
\* the body of stopTracking
stopTracking ==
    /\ isTracking' = FALSE
    /\ locationSubscription' = NoHandle
    /\ subscriptions' = subscriptions \ {locationSubscription}
    /\ durationIntervalRef' = NoHandle
    /\ intervals' = intervals \ {durationIntervalRef}

\* The stop button (rendered while isTracking) is pressed.
pressStop ==
    /\ isTracking
    /\ stopTracking
    /\ effects' = NoEffects
    /\ lastButton' = "stop"
    /\ UNCHANGED <<totalDistance, currentSpeed, duration, currentPosition,
                   routeCoordinates, startTimeRef, lastPositionRef, remoteVars,
                   pc, now, nextCall, nFixes>>

\* The reset button (always rendered) is pressed.
resetTracking ==
    /\ stopTracking
    /\ totalDistance' = 0
    /\ currentSpeed' = 0
    /\ duration' = 0
    /\ routeCoordinates' = <<>>
    /\ lastPositionRef' = NULL
    /\ effects' = NoEffects
    /\ lastButton' = "reset"
    /\ UNCHANGED <<currentPosition, startTimeRef, remoteVars, pc, now,
                   nextCall, nFixes>>

\* ---------------------------------------------------------- specification
Next ==
    \/ startTracking
    \/ \E c \in Calls : startTrackingDenied(c)
    \/ \E c \in Calls : startTrackingGranted(c)
    \/ \E c \in Calls : watchPositionResolved(c)
    \/ \E c \in Calls : watchPositionRejected(c)
    \/ \E c \in Calls, p \in Positions, s \in Speeds :
          locationCallback(c, latitude(p), longitude(p), s)
    \/ \E c \in Calls : durationTick(c)
    \/ clockAdvance
    \/ pressStop
    \/ resetTracking
    \/ sendResolved
    \/ sendRejected

Spec == Init /\ [][Next]_vars

\* =================================================================== claims
Threshold == NoiseThreshold * 100

\* the geodesic distance between two positions
Dist(p, q) == calculateDistanceGeodesic(latitude(p), longitude(p),
                                        latitude(q), longitude(q))

RECURSIVE RouteLength(_)
\* the sum of the distances between consecutive points of a route
RouteLength(route) ==
    IF Len(route) < 2 THEN 0
    ELSE Dist(route[1], route[2]) + RouteLength(Tail(route))

\* a step that is one location callback
IsLocationUpdate == nFixes' = nFixes + 1

\* the zero state of the session
ZeroSession ==
    /\ isTracking = FALSE
    /\ totalDistance = 0
    /\ currentSpeed = 0
    /\ duration = 0
    /\ routeCoordinates = <<>>
    /\ lastPositionRef = NULL

\* C1: while tracking with a previous fix, a location update whose distance
\* from the previously received fix is at most the 3 m threshold (3 m
\* included) leaves totalDistance unchanged and appends nothing to the route.
C1_BelowThresholdIgnored ==
    [][(/\ IsLocationUpdate
        /\ isTracking
        /\ lastPositionRef # NULL
        /\ Dist(lastPositionRef, currentPosition') <= Threshold)
       => (/\ totalDistance' = totalDistance
           /\ routeCoordinates' = routeCoordinates)]_vars

\* C1 witness: the second fix of a session lay exactly 3 m from the first and
\* was processed: nothing accumulated, the route still holds the first fix.
C1_Witness ==
    /\ isTracking
    /\ nFixes = 2
    /\ effects.tracked # <<>>
    /\ Len(routeCoordinates) = 1
    /\ lastPositionRef # NULL
    /\ lastPositionRef # routeCoordinates[1]
    /\ Dist(routeCoordinates[1], lastPositionRef) = Threshold
    /\ totalDistance = 0

\* C2: from every reachable state, also with a startTracking call still
\* awaiting its permission request or its subscription, resetTracking leaves
\* the session in the zero state.
C2_ResetReachesZero == [][resetTracking => ZeroSession']_vars

\* C2 witness: reset was the last button pressed, after at least two fixes
\* had been processed, while a startTracking call was still pending.
C2_Witness ==
    /\ lastButton = "reset"
    /\ ZeroSession
    /\ nFixes >= 2
    /\ \E c \in Calls : pc[c] \in {"permission", "watch"}

\* C3: during an active session totalDistance equals the sum of the geodesic
\* distances between consecutive points of the route, each of which exceeds
\* the noise threshold.
C3_TotalIsRouteLength ==
    isTracking =>
        /\ totalDistance = RouteLength(routeCoordinates)
        /\ \A i \in 1..(Len(routeCoordinates) - 1) :
              Dist(routeCoordinates[i], routeCoordinates[i + 1]) > Threshold

\* C4: a location update never decreases totalDistance.
C4_DistanceMonotonic == [][IsLocationUpdate => totalDistance' >= totalDistance]_vars

\* C4 witness: the third fix of a session was accepted on top of an already
\* accumulated distance.
C4_Witness ==
    /\ isTracking
    /\ effects.tracked = <<currentPosition>>
    /\ Len(routeCoordinates) = 3
    /\ routeCoordinates[3] = currentPosition
    /\ totalDistance > 2 * Threshold

\* C5: after stopTracking, totalDistance, duration and the route do not
\* change until the next press of start or reset.
C5_FrozenOnStop ==
    [][(lastButton = "stop" /\ lastButton' = "stop")
       => UNCHANGED <<totalDistance, duration, routeCoordinates>>]_vars

\* C6: every location update that appends its fix to the route (the first
\* fix of a session included) makes exactly one trackPosition call, carrying
\* that fix's latitude and longitude.
C6_AcceptedFixMirrored ==
    [][(routeCoordinates' # routeCoordinates /\ routeCoordinates' # <<>>)
       => effects'.tracked = <<routeCoordinates'[Len(routeCoordinates')]>>]_vars

\* C7: when a remote send settles, failing included, no error is left
\* unhandled and the session state is untouched.
C7_SendFailureSwallowed ==
    [][(pendingSends' = pendingSends - 1)
       => (~effects'.unhandled /\ UNCHANGED appVars)]_vars

\* C8: when the permission is not granted, startTracking raises the
\* permission alert and changes nothing else: the session cells and refs stay
\* as they were and no timer and no subscription is created.
C8_DeniedChangesNothing ==
    [][\A c \in Calls :
          (pc[c] = "permission" /\ pc'[c] = "done")
          => (/\ effects'.alert = "Permission Denied"
              /\ UNCHANGED <<appVars, subscriptions, intervals>>)]_vars

\* C8 witness: the permission alert was just raised while the data of an
\* earlier, stopped session is still in place and nothing is running.
C8_Witness ==
    /\ effects.alert = "Permission Denied"
    /\ ~isTracking
    /\ Len(routeCoordinates) >= 2
    /\ totalDistance > 0
    /\ subscriptions = {}
    /\ intervals = {}

\* C9: once startTracking has passed the permission check the session is
\* isTracking = true, totalDistance = 0, currentSpeed = 0, duration = 0 and
\* the route is empty.
C9_ResetAtStart ==
    [][\A c \in Calls :
          (pc[c] = "permission" /\ pc'[c] = "watch")
          => (/\ isTracking' = TRUE
              /\ totalDistance' = 0
              /\ currentSpeed' = 0
              /\ duration' = 0
              /\ routeCoordinates' = <<>>)]_vars

\* C10: whenever stop or reset was the last button pressed and every
\* startTracking call has run to completion, no location subscription and no
\* duration timer is still active.
C10_StopCancels ==
    (/\ lastButton \in {"stop", "reset"}
     /\ \A c \in Calls : pc[c] \in {"idle", "done"})
    => (subscriptions = {} /\ intervals = {})

\* C11: while tracking, a location update leaves the previous route as a
\* prefix of the new one, appending at most the new fix; the first fix of a
\* session makes the route exactly that fix and leaves totalDistance at 0.
C11_RouteAppendOnly ==
    [][(IsLocationUpdate /\ isTracking)
       => (/\ \/ routeCoordinates' = routeCoordinates
              \/ routeCoordinates' = Append(routeCoordinates, currentPosition')
           /\ lastPositionRef = NULL
              => (/\ routeCoordinates' = <<currentPosition'>>
                  /\ totalDistance' = 0))]_vars

\* C11 witness: a session took three fixes, the second rejected and the third
\* appended behind the first.
C11_Witness ==
    /\ isTracking
    /\ nFixes = 3
    /\ effects.tracked = <<currentPosition>>
    /\ Len(routeCoordinates) = 2
    /\ routeCoordinates[2] = currentPosition
    /\ lastPositionRef = currentPosition
    /\ totalDistance > 0

====
